---- MODULE Spec2Model ----
(***************************************************************************)
(* Model of app.py, the Streamlit front-end of the Paris tour agent.       *)
(*                                                                         *)
(* The script is executed top to bottom once per "script run".  A run of   *)
(* a session is started by a plain rerun, by a chat_input submission or    *)
(* by a click on the reset button; st.stop() and an uncaught exception     *)
(* end the run.  Each session owns st.session_state; the process owns the  *)
(* environment and the st.cache_resource entry of initialize_agent.  One   *)
(* run is in flight per session (the turn-taking precondition of the UI),  *)
(* runs of different sessions interleave.                                  *)
(*                                                                         *)
(* Text is a sequence of characters.  Remote services are modelled by     *)
(* what the script observes of them: a call returns or raises, a created   *)
(* conversation gets the next unused id, a created agent version the next  *)
(* version number.                                                         *)
(***************************************************************************)
EXTENDS Integers, Sequences, FiniteSets, TLC

\* ---------------------------------------------------------------- bounds
MaxRuns == 3       \* script runs started by the users, all sessions together
MaxEvents == 2     \* events delivered by one response stream
MaxMissing == 2    \* settings that are absent or empty in the environment

\* ------------------------------------------------------- program constants

\* app.py:41-47, in load order
RequiredKeys ==
  << "AZURE_SEARCH_ENDPOINT", "AZURE_SEARCH_KB_NAME", "PROJECT_ENDPOINT",
     "PROJECT_RESOURCE_ID", "PROJECT_CONNECTION_NAME", "AGENT_NAME",
     "AGENT_MODEL" >>

KeySet == { RequiredKeys[i] : i \in 1..Len(RequiredKeys) }

\* the cursor marker appended to an intermediate render (app.py:190)
Cursor == "_cursor_"

DeltaType == "response.output_text.delta"
CompletedType == "response.completed"
OtherType == "response.created"

\* ------------------------------------------------------------ input sets
\* browser sessions connected to the process, each with its st.session_state
Sessions == {"s1", "s2"}

\* os.environ.get(key): absent (None), empty string, or a non-empty string
EnvValues == {"absent", "empty", "set"}

Prompts == { <<"h", "i">>, <<"g", "o">> }

\* event.delta is None ({}) or a string ({text})
DeltaValues == { {}, {<<"a">>}, {<<"b">>} }

StreamEvents ==
  [type : {DeltaType}, delta : DeltaValues]
    \cup [type : {CompletedType, OtherType}, delta : {{}}]

Triggers ==
  [kind : {"rerun", "reset"}, prompt : {<< >>}]
    \cup [kind : {"prompt"}, prompt : Prompts]

\* outcomes of one execution of the body of initialize_agent
InitOutcomes == {"token_fail", "put_fail", "put_status", "version_fail", "ok"}

NoConv == 0        \* "conversation_id" not in st.session_state
NoAgent == 0       \* no cached / loaded agent handle
NoError == [kind |-> "none", key |-> ""]

VARIABLES
  env,            \* process environment: key -> EnvValues
  cache,          \* st.cache_resource entry of initialize_agent (agent version)
  versions,       \* remote: agent versions created so far
  net,            \* outbound calls issued so far, by kind
  sent,           \* remote: sent[cid] = inputs submitted to conversation cid
  runs,           \* script runs started by users
  pc,             \* per session: position of the running script, or "idle"
  trigger,        \* per session: what started the current / last run
  st,             \* per session: st.session_state (a record of the keys set)
  agent,          \* per session: script variable `agent`
  full_response,  \* per session: script variable `full_response`
  renders,        \* per session: texts the running script wrote to response_placeholder
  events,         \* per session: events received from the stream being consumed
  lastError,      \* per session: st.error shown by the current / last run
  ready,          \* per session: chat_input and reset button are on the page
  run,            \* per session: what the current / last run did
  hist            \* per session: what happened since the transcript was last cleared

vars == << env, cache, versions, net, sent, runs, pc, trigger, st, agent,
           full_response, renders, events, lastError, ready, run, hist >>

\* ---------------------------------------------------------------- helpers
\* variant: `if value is None`, an empty string passes
Falsy_NoneOnly(v) == v = "absent"

\* `if not value` (app.py:34)
Falsy(v) == v \in {"absent", "empty"}

\* index of the first required key get_required_env stops at, 0 when none
RECURSIVE FirstMissingFrom(_, _)
FirstMissingFrom(e, i) ==
  IF i > Len(RequiredKeys) THEN 0
  ELSE IF Falsy(e[RequiredKeys[i]]) THEN i
  ELSE FirstMissingFrom(e, i + 1)

FirstMissing(e) == FirstMissingFrom(e, 1)

\* st.session_state accessors
HasKey(s, k) == k \in DOMAIN st[s]
Msgs(s) == IF HasKey(s, "messages") THEN st[s].messages ELSE << >>
Cid(s) == IF HasKey(s, "conversation_id") THEN st[s].conversation_id ELSE NoConv

SetKey(rec, k, v) ==
  [x \in DOMAIN rec \cup {k} |-> IF x = k THEN v ELSE rec[x]]

UserEntry(p) == [role |-> "user", content |-> p]
AssistantEntry(t) == [role |-> "assistant", content |-> t]

\* `event.delta or ""` (app.py:189)
OrEmpty(d) == IF d = {} THEN << >> ELSE CHOOSE t \in d : TRUE

\* variant: the fragment is put in front of the accumulator
Accumulate_Prepend(full, frag) == frag \o full

\* `full_response += ...` (app.py:189)
Accumulate(full, frag) == full \o frag

\* `full_response + cursor` (app.py:190)
WithCursor(full) == Append(full, Cursor)

\* what a run has done so far; msgs0 and cid0 are the session state it started from
FreshRun == [started |-> FALSE, init |-> "none", conv |-> FALSE, shown |-> FALSE,
             turn |-> "none", versionCalled |-> FALSE, putCalled |-> FALSE,
             msgs0 |-> << >>, cid0 |-> NoConv, reqCid |-> NoConv]

FreshHist == [ok |-> 0, failed |-> 0, failCid |-> NoConv, cids |-> {}]

EnvOK(e) ==
  Cardinality({k \in KeySet : Falsy(e[k])}) <= MaxMissing

Init ==
  /\ env \in {e \in [KeySet -> EnvValues] : EnvOK(e)}
  /\ cache = NoAgent
  /\ versions = 0
  /\ net = [token |-> 0, put |-> 0, version |-> 0, conv |-> 0, resp |-> 0]
  /\ sent = << >>
  /\ runs = 0
  /\ pc = [s \in Sessions |-> "idle"]
  /\ trigger = [s \in Sessions |-> [kind |-> "rerun", prompt |-> << >>]]
  /\ st = [s \in Sessions |-> [k \in {} |-> 0]]
  /\ agent = [s \in Sessions |-> NoAgent]
  /\ full_response = [s \in Sessions |-> << >>]
  /\ renders = [s \in Sessions |-> << >>]
  /\ events = [s \in Sessions |-> << >>]
  /\ lastError = [s \in Sessions |-> NoError]
  /\ ready = [s \in Sessions |-> FALSE]
  /\ run = [s \in Sessions |-> FreshRun]
  /\ hist = [s \in Sessions |-> FreshHist @@ [boots |-> 0]]

\* the per-run script variables and records at the top of the script
BeginScript(s, trig) ==
  /\ pc' = [pc EXCEPT ![s] = "env"]
  /\ trigger' = [trigger EXCEPT ![s] = trig]
  /\ agent' = [agent EXCEPT ![s] = NoAgent]
  /\ full_response' = [full_response EXCEPT ![s] = << >>]
  /\ renders' = [renders EXCEPT ![s] = << >>]
  /\ events' = [events EXCEPT ![s] = << >>]
  /\ lastError' = [lastError EXCEPT ![s] = NoError]
  /\ ready' = [ready EXCEPT ![s] = FALSE]
  /\ run' = [run EXCEPT ![s] = [FreshRun EXCEPT !.started = TRUE,
                                                !.msgs0 = Msgs(s),
                                                !.cid0 = Cid(s)]]

\* st.error(...) followed by st.stop(): the run ends, nothing below is drawn
StopWith(s, err) ==
  /\ pc' = [pc EXCEPT ![s] = "idle"]
  /\ lastError' = [lastError EXCEPT ![s] = err]

\* a user (or the browser) starts a script run of session s
StartRun(s, trig) ==
  /\ pc[s] = "idle"
  /\ runs < MaxRuns
  /\ trig.kind # "rerun" => ready[s]
  /\ runs' = runs + 1
  /\ BeginScript(s, trig)
  /\ UNCHANGED << env, cache, versions, net, sent, st, hist >>

\* app.py:40-52, the seven get_required_env calls
LoadEnv(s) ==
  /\ pc[s] = "env"
  /\ IF FirstMissing(env) = 0
       THEN /\ pc' = [pc EXCEPT ![s] = "agent"]
            /\ UNCHANGED lastError
       ELSE StopWith(s, [kind |-> "env", key |-> RequiredKeys[FirstMissing(env)]])
  /\ UNCHANGED << env, cache, versions, net, sent, runs, trigger, st, agent,
                  full_response, renders, events, ready, run, hist >>

\* variant: initialize_agent without the st.cache_resource decorator
CacheHit_Never == FALSE

\* st.cache_resource: the body runs only when no value is cached
CacheHit == cache # NoAgent

\* calls issued by the body of initialize_agent for a given outcome
PutIssued(o) == o # "token_fail"
VersionIssued(o) == o \in {"version_fail", "ok"}

\* variant: the except block of the agent load lacks st.stop()
AfterAgentLoad_Continue(o) == "session"

\* where the script goes after the agent load block (app.py:127-135)
AfterAgentLoad(o) == IF o \in {"hit", "ok"} THEN "session" ELSE "idle"

\* app.py:127-130 with a cached value
LoadAgentHit(s) ==
  /\ pc[s] = "agent"
  /\ CacheHit
  /\ agent' = [agent EXCEPT ![s] = cache]
  /\ run' = [run EXCEPT ![s].init = "hit"]
  /\ pc' = [pc EXCEPT ![s] = AfterAgentLoad("hit")]
  /\ UNCHANGED << env, cache, versions, net, sent, runs, trigger, st,
                  full_response, renders, events, lastError, ready, hist >>

\* app.py:127-135 running the body of initialize_agent (app.py:58-122)
LoadAgentMiss(s, o) ==
  /\ pc[s] = "agent"
  /\ ~CacheHit
  /\ net' = [net EXCEPT !.token = @ + 1,
                        !.put = IF PutIssued(o) THEN @ + 1 ELSE @,
                        !.version = IF VersionIssued(o) THEN @ + 1 ELSE @]
  /\ versions' = IF o = "ok" THEN versions + 1 ELSE versions
  /\ cache' = IF o = "ok" THEN versions + 1 ELSE cache
  /\ agent' = [agent EXCEPT ![s] = IF o = "ok" THEN versions + 1 ELSE NoAgent]
  /\ run' = [run EXCEPT ![s].init = o,
                        ![s].putCalled = PutIssued(o),
                        ![s].versionCalled = VersionIssued(o)]
  /\ pc' = [pc EXCEPT ![s] = AfterAgentLoad(o)]
  /\ lastError' = [lastError EXCEPT ![s] =
                     IF o = "ok" THEN @ ELSE [kind |-> "agent", key |-> o]]
  /\ UNCHANGED << env, sent, runs, trigger, st, full_response, renders,
                  events, ready, hist >>

\* app.py:140-141
InitMessages(rec) ==
  IF "messages" \in DOMAIN rec THEN rec ELSE SetKey(rec, "messages", << >>)

\* variant: a conversation is created on every script run
NeedsConversation_Always(rec) == TRUE

\* app.py:143: a conversation is created only when the key is missing
NeedsConversation(rec) == "conversation_id" \notin DOMAIN rec

\* app.py:140-143, the session already holds a conversation id
SessionKeep(s) ==
  /\ pc[s] = "session"
  /\ ~NeedsConversation(st[s])
  /\ st' = [st EXCEPT ![s] = InitMessages(@)]
  /\ pc' = [pc EXCEPT ![s] = "show"]
  /\ UNCHANGED << env, cache, versions, net, sent, runs, trigger, agent,
                  full_response, renders, events, lastError, ready, run, hist >>

\* app.py:140-146, conversations.create() returns
SessionCreateOk(s) ==
  /\ pc[s] = "session"
  /\ NeedsConversation(st[s])
  /\ net' = [net EXCEPT !.conv = @ + 1]
  /\ sent' = Append(sent, << >>)
  /\ st' = [st EXCEPT ![s] = SetKey(InitMessages(@), "conversation_id", Len(sent) + 1)]
  /\ run' = [run EXCEPT ![s].conv = TRUE]
  /\ hist' = [hist EXCEPT ![s].boots = @ + 1]
  /\ pc' = [pc EXCEPT ![s] = "show"]
  /\ UNCHANGED << env, cache, versions, runs, trigger, agent, full_response,
                  renders, events, lastError, ready >>

\* app.py:140-149, conversations.create() raises
SessionCreateFail(s) ==
  /\ pc[s] = "session"
  /\ NeedsConversation(st[s])
  /\ net' = [net EXCEPT !.conv = @ + 1]
  /\ st' = [st EXCEPT ![s] = InitMessages(@)]
  /\ StopWith(s, [kind |-> "conversation", key |-> ""])
  /\ UNCHANGED << env, cache, versions, sent, runs, trigger, agent,
                  full_response, renders, events, ready, run, hist >>

\* app.py:161: chat_input returns the submitted text, None otherwise
HasPrompt(trig) == trig.kind = "prompt"

\* app.py:154-165: draw the transcript, draw chat_input, store the user entry
ShowAndInput(s) ==
  /\ pc[s] = "show"
  /\ ready' = [ready EXCEPT ![s] = TRUE]
  /\ IF HasPrompt(trigger[s])
       THEN /\ st' = [st EXCEPT ![s].messages = Append(@, UserEntry(trigger[s].prompt))]
            /\ run' = [run EXCEPT ![s].shown = TRUE, ![s].turn = "open"]
            /\ pc' = [pc EXCEPT ![s] = "call"]
       ELSE /\ st' = st
            /\ run' = [run EXCEPT ![s].shown = TRUE]
            /\ pc' = [pc EXCEPT ![s] = "sidebar"]
  /\ UNCHANGED << env, cache, versions, net, sent, runs, trigger, agent,
                  full_response, renders, events, lastError, hist >>

\* app.py:197-199: the except block of the turn; req is the set of
\* conversation ids the failed turn issued a request with
TurnError(s, req) ==
  /\ lastError' = [lastError EXCEPT ![s] = [kind |-> "turn", key |-> ""]]
  /\ run' = [run EXCEPT ![s].turn = "error",
                        ![s].reqCid = IF req = {} THEN @ ELSE CHOOSE c \in req : TRUE]
  /\ hist' = [hist EXCEPT ![s].failed = @ + 1,
                          ![s].failCid = Cid(s),
                          ![s].cids = @ \cup req]
  /\ pc' = [pc EXCEPT ![s] = "sidebar"]

\* the conversation a turn is sent with (app.py:176)
TurnConversation(s) == Cid(s)

\* app.py:174-185: responses.create(stream=True, ...) returns a stream or raises
CallResponses(s, ok) ==
  /\ pc[s] = "call"
  /\ IF TurnConversation(s) = NoConv
       THEN \* reading the missing key raises inside the try block
            /\ TurnError(s, {})
            /\ UNCHANGED << net, sent >>
       ELSE /\ net' = [net EXCEPT !.resp = @ + 1]
            /\ sent' = [sent EXCEPT ![TurnConversation(s)] = Append(@, trigger[s].prompt)]
            /\ IF ok
                 THEN /\ pc' = [pc EXCEPT ![s] = "stream"]
                      /\ run' = [run EXCEPT ![s].reqCid = TurnConversation(s)]
                      /\ hist' = [hist EXCEPT ![s].cids = @ \cup {TurnConversation(s)}]
                      /\ UNCHANGED lastError
                 ELSE TurnError(s, {TurnConversation(s)})
  /\ UNCHANGED << env, cache, versions, runs, trigger, st, agent,
                  full_response, renders, events, ready >>

\* app.py:188-192: the body of `for event in stream`
NextFull(full, ev) ==
  IF ev.type = DeltaType THEN Accumulate(full, OrEmpty(ev.delta)) ELSE full

NextRenders(rs, full, ev) ==
  IF ev.type = DeltaType THEN Append(rs, WithCursor(NextFull(full, ev)))
  ELSE IF ev.type = CompletedType THEN Append(rs, full)
  ELSE rs

\* app.py:187-192: the stream yields one event
StreamEvent(s, ev) ==
  /\ pc[s] = "stream"
  /\ Len(events[s]) < MaxEvents
  /\ events' = [events EXCEPT ![s] = Append(@, ev)]
  /\ full_response' = [full_response EXCEPT ![s] = NextFull(@, ev)]
  /\ renders' = [renders EXCEPT ![s] = NextRenders(@, full_response[s], ev)]
  /\ UNCHANGED << env, cache, versions, net, sent, runs, pc, trigger, st,
                  agent, lastError, ready, run, hist >>

\* variant: the except block stores the partial response
StreamRaise_Commits(s) ==
  /\ pc[s] = "stream"
  /\ TurnError(s, {})
  /\ st' = [st EXCEPT ![s].messages = Append(@, AssistantEntry(full_response[s]))]
  /\ events' = [events EXCEPT ![s] = << >>]
  /\ UNCHANGED << env, cache, versions, net, sent, runs, trigger, agent,
                  full_response, renders, ready >>

\* app.py:187, 197-199: the stream raises while it is consumed
StreamRaise(s) ==
  /\ pc[s] = "stream"
  /\ TurnError(s, {})
  /\ events' = [events EXCEPT ![s] = << >>]
  /\ UNCHANGED << env, cache, versions, net, sent, runs, trigger, st, agent,
                  full_response, renders, ready >>

\* variant: `if full_response:` guards the append
Commit_SkipEmpty(msgs, full) ==
  IF full = << >> THEN msgs ELSE Append(msgs, [role |-> "assistant", content |-> full])

\* app.py:195: the entry stored when the stream is exhausted
Commit(msgs, full) == Append(msgs, AssistantEntry(full))

\* app.py:187, 195: the stream is exhausted
StreamEnd(s) ==
  /\ pc[s] = "stream"
  /\ st' = [st EXCEPT ![s].messages = Commit(@, full_response[s])]
  /\ run' = [run EXCEPT ![s].turn = "ok"]
  /\ hist' = [hist EXCEPT ![s].ok = @ + 1]
  /\ pc' = [pc EXCEPT ![s] = "sidebar"]
  /\ events' = [events EXCEPT ![s] = << >>]
  /\ UNCHANGED << env, cache, versions, net, sent, runs, trigger, agent,
                  full_response, renders, lastError, ready >>

\* the script has ended: its stream and its accumulator are gone
EndScript(s) ==
  /\ full_response' = [full_response EXCEPT ![s] = << >>]
  /\ renders' = [renders EXCEPT ![s] = << >>]
  /\ events' = [events EXCEPT ![s] = << >>]

\* app.py:209: st.button returns True in the run its click started
ResetClicked(trig) == trig.kind = "reset"

\* app.py:204-209: the sidebar, reset button not clicked; the script ends
EndRun(s) ==
  /\ pc[s] = "sidebar"
  /\ ~ResetClicked(trigger[s])
  /\ pc' = [pc EXCEPT ![s] = "idle"]
  /\ EndScript(s)
  /\ UNCHANGED << env, cache, versions, net, sent, runs, trigger, st, agent,
                  lastError, ready, run, hist >>

\* app.py:210
ClearMessages(rec) == SetKey(rec, "messages", << >>)

\* app.py:209-213: reset, conversations.create() returns, st.rerun()
ResetOk(s) ==
  /\ pc[s] = "sidebar"
  /\ ResetClicked(trigger[s])
  /\ net' = [net EXCEPT !.conv = @ + 1]
  /\ sent' = Append(sent, << >>)
  /\ st' = [st EXCEPT ![s] = SetKey(ClearMessages(@), "conversation_id", Len(sent) + 1)]
  /\ hist' = [hist EXCEPT ![s] = FreshHist @@ [boots |-> hist[s].boots]]
  /\ pc' = [pc EXCEPT ![s] = "env"]
  /\ trigger' = [trigger EXCEPT ![s] = [kind |-> "rerun", prompt |-> << >>]]
  /\ agent' = [agent EXCEPT ![s] = NoAgent]
  /\ full_response' = [full_response EXCEPT ![s] = << >>]
  /\ renders' = [renders EXCEPT ![s] = << >>]
  /\ events' = [events EXCEPT ![s] = << >>]
  /\ lastError' = [lastError EXCEPT ![s] = NoError]
  /\ ready' = [ready EXCEPT ![s] = FALSE]
  /\ run' = [run EXCEPT ![s] = [FreshRun EXCEPT !.started = TRUE,
                                                !.cid0 = Len(sent) + 1]]
  /\ UNCHANGED << env, cache, versions, runs >>

\* app.py:209-211: reset, conversations.create() raises; nothing catches it
ResetFail(s) ==
  /\ pc[s] = "sidebar"
  /\ ResetClicked(trigger[s])
  /\ net' = [net EXCEPT !.conv = @ + 1]
  /\ st' = [st EXCEPT ![s] = ClearMessages(@)]
  /\ hist' = [hist EXCEPT ![s] = FreshHist @@ [boots |-> hist[s].boots]]
  /\ pc' = [pc EXCEPT ![s] = "idle"]
  /\ lastError' = [lastError EXCEPT ![s] = [kind |-> "uncaught", key |-> ""]]
  /\ EndScript(s)
  /\ UNCHANGED << env, cache, versions, sent, runs, trigger, agent, ready, run >>

Next ==
  \E s \in Sessions :
    \/ \E trig \in Triggers : StartRun(s, trig)
    \/ LoadEnv(s)
    \/ LoadAgentHit(s)
    \/ \E o \in InitOutcomes : LoadAgentMiss(s, o)
    \/ SessionKeep(s)
    \/ SessionCreateOk(s)
    \/ SessionCreateFail(s)
    \/ ShowAndInput(s)
    \/ \E ok \in BOOLEAN : CallResponses(s, ok)
    \/ \E ev \in StreamEvents : StreamEvent(s, ev)
    \/ StreamRaise(s)
    \/ StreamEnd(s)
    \/ EndRun(s)
    \/ ResetOk(s)
    \/ ResetFail(s)

Spec == Init /\ [][Next]_vars

\* ================================================================ claims
\* helpers of the statements below (independent of the script's operators)
IsUnset(v) == v = "absent" \/ v = "empty"

NoNetworkCall ==
  /\ net.token = 0 /\ net.put = 0 /\ net.version = 0
  /\ net.conv = 0 /\ net.resp = 0

LastRendered(s) ==
  IF renders[s] = << >> THEN << >> ELSE renders[s][Len(renders[s])]

RECURSIVE Flatten(_)
Flatten(ss) == IF ss = << >> THEN << >> ELSE Head(ss) \o Flatten(Tail(ss))

FragmentOf(ev) == IF ev.delta = {} THEN << >> ELSE CHOOSE t \in ev.delta : TRUE

IsDelta(ev) == ev.type = DeltaType
IsOther(ev) == ev.type # DeltaType /\ ev.type # CompletedType

RECURSIVE Fragments(_)
Fragments(evs) ==
  IF evs = << >> THEN << >>
  ELSE IF IsDelta(Head(evs)) THEN << FragmentOf(Head(evs)) >> \o Fragments(Tail(evs))
  ELSE Fragments(Tail(evs))

HasCursor(text) == text # << >> /\ text[Len(text)] = Cursor
Intermediate(rs) == SelectSeq(rs, HasCursor)

RECURSIVE UserContents(_)
UserContents(msgs) ==
  IF msgs = << >> THEN << >>
  ELSE IF Head(msgs).role = "user"
         THEN << Head(msgs).content >> \o UserContents(Tail(msgs))
         ELSE UserContents(Tail(msgs))

TurnSettled(s) == pc[s] \in {"idle", "sidebar"}

\* C1: in a session whose transcript was empty at bootstrap and that has had
\* N turns since, all of them successful (no stream error, no reset), the
\* transcript has exactly 2N entries, odd entries user, even entries assistant.
C1_TranscriptAlternates ==
  \A s \in Sessions :
    (TurnSettled(s) /\ hist[s].failed = 0) =>
      /\ Len(Msgs(s)) = 2 * hist[s].ok
      /\ \A i \in 1..Len(Msgs(s)) :
           Msgs(s)[i].role = IF i % 2 = 1 THEN "user" ELSE "assistant"

C1_Witness ==
  \E s \in Sessions :
    /\ pc[s] = "idle" /\ hist[s].failed = 0 /\ hist[s].ok = 2
    /\ Len(Msgs(s)) = 4

\* C2: when the streaming call or the consumption of the stream raises, the
\* transcript has gained exactly the user entry of the turn and no assistant
\* entry, the conversation id is unchanged, the chat input is on the page again
\* and a following turn is sent with that same conversation id.
C2_TurnFailureIsolation ==
  \A s \in Sessions :
    /\ run[s].turn = "error" =>
         /\ Msgs(s) = Append(run[s].msgs0, [role |-> "user", content |-> trigger[s].prompt])
         /\ Cid(s) = run[s].cid0
         /\ ready[s]
         /\ (pc[s] = "idle" /\ runs < MaxRuns) =>
              \A p \in Prompts : ENABLED StartRun(s, [kind |-> "prompt", prompt |-> p])
    /\ (hist[s].failCid # NoConv /\ run[s].turn \in {"open", "ok", "error"}) =>
         /\ Cid(s) = hist[s].failCid
         /\ pc[s] # "call" => run[s].reqCid = hist[s].failCid

C2_Witness ==
  \E s \in Sessions :
    /\ hist[s].failed = 1 /\ hist[s].ok = 1
    /\ pc[s] = "idle" /\ run[s].turn = "ok"
    /\ Len(Msgs(s)) = 3
    /\ Msgs(s)[2].role = "user"

\* C3: after the reset action the transcript is empty and the conversation id
\* of the session differs from the one held before the reset.
C3_ResetProperty ==
  [][ \A s \in Sessions :
        (pc[s] = "sidebar" /\ trigger[s].kind = "reset" /\ pc'[s] # "sidebar") =>
          /\ Len(Msgs(s)') = 0
          /\ Cid(s)' # Cid(s) ]_vars

\* C4: the content of a committed assistant entry equals the text last
\* rendered in the response placeholder of that turn, for every event stream.
C4_CommittedEqualsRendered ==
  \A s \in Sessions :
    run[s].turn = "ok" =>
      Msgs(s)[Len(Msgs(s))].content = LastRendered(s)

\* C5: the k-th intermediate render of a turn is the concatenation, in arrival
\* order, of the fragments of the first k delta events followed by the cursor
\* marker; an event with another tag than delta or completed leaves the
\* accumulator and the rendered text unchanged and does not end the turn.
C5_RendersInOrder ==
  /\ [](\A s \in Sessions :
          pc[s] = "stream" =>
          LET frags == Fragments(events[s])
              inter == Intermediate(renders[s])
          IN /\ Len(inter) = Len(frags)
             /\ \A k \in 1..Len(frags) :
                  inter[k] = Flatten(SubSeq(frags, 1, k)) \o << Cursor >>
             /\ full_response[s] = Flatten(frags))
  /\ [][ \A s \in Sessions :
           (Len(events'[s]) = Len(events[s]) + 1 /\ IsOther(events'[s][Len(events'[s])])) =>
             /\ full_response'[s] = full_response[s]
             /\ renders'[s] = renders[s]
             /\ pc'[s] = "stream"
             /\ run'[s].turn = "open" ]_vars

C5_Witness ==
  \E s \in Sessions :
    /\ Len(events[s]) = 2
    /\ events[s][1].type = DeltaType /\ events[s][1].delta = {<<"a">>}
    /\ events[s][2].type = DeltaType /\ events[s][2].delta = {<<"b">>}
    /\ renders[s] = << <<"a", Cursor>>, <<"a", "b", Cursor>> >>
    /\ pc[s] = "stream"

\* C6 (as stated): for each required setting that is absent or empty, the run
\* reports an error naming that key and stops before any network call.
C6_EveryMissingKeyNamed ==
  \A k \in KeySet :
    IsUnset(env[k]) =>
      /\ NoNetworkCall
      /\ \A s \in Sessions :
           (run[s].started /\ pc[s] = "idle") =>
             lastError[s] = [kind |-> "env", key |-> k]

\* C6 (amended): when a required setting is absent or empty, the run reports
\* an error naming the first such setting in load order and stops before any
\* network call: no token, no PUT, no agent version, no conversation, no turn.
C6_FirstMissingKeyNamed ==
  \A i \in 1..Len(RequiredKeys) :
    (/\ IsUnset(env[RequiredKeys[i]])
     /\ \A j \in 1..(i - 1) : ~IsUnset(env[RequiredKeys[j]])) =>
      /\ NoNetworkCall
      /\ versions = 0 /\ sent = << >>
      /\ \A s \in Sessions :
           /\ pc[s] \in {"idle", "env"}
           /\ ~ready[s] /\ ~run[s].shown /\ run[s].turn = "none"
           /\ (run[s].started /\ pc[s] = "idle") =>
                lastError[s] = [kind |-> "env", key |-> RequiredKeys[i]]

C6_Witness ==
  \E s \in Sessions :
    /\ env["AGENT_MODEL"] = "empty" /\ env["PROJECT_ENDPOINT"] = "absent"
    /\ run[s].started /\ pc[s] = "idle"
    /\ lastError[s] = [kind |-> "env", key |-> "PROJECT_ENDPOINT"]

C8_OneConversationPerEpoch ==
  /\ [](\A s \in Sessions :
          /\ hist[s].boots <= 1
          /\ pc[s] \in {"call", "stream"} => Cid(s) # NoConv
          /\ NoConv \notin hist[s].cids
          /\ Cardinality(hist[s].cids) <= 1)
  /\ [][ \A s \in Sessions :
           hist'[s].boots # hist[s].boots => Cid(s) = NoConv ]_vars

C8_Witness ==
  \E s \in Sessions :
    /\ hist[s].boots = 1
    /\ hist[s].ok + hist[s].failed = 2
    /\ Cardinality(hist[s].cids) = 1
    /\ pc[s] = "idle"

\* C9: once initialize_agent has succeeded, no later run, turn, reset or
\* session issues another connection PUT or create_version call, every run of
\* every session uses the one cached agent handle, and a step of one session
\* leaves the transcript and conversation id of every other session unchanged.
C9_InitializedOnce ==
  /\ [][ cache # NoAgent =>
           /\ net'.put = net.put
           /\ net'.version = net.version
           /\ cache' = cache ]_vars
  /\ [](\A s \in Sessions : agent[s] # NoAgent => agent[s] = cache)
  /\ [](cache # NoAgent => versions = 1)
  /\ [][ \A s, t \in Sessions :
           (s # t /\ st'[s] # st[s]) => st'[t] = st[t] ]_vars

C9_Witness ==
  /\ cache # NoAgent /\ net.put = 1 /\ net.version = 1
  /\ \A s \in Sessions : agent[s] = cache
  /\ \E s \in Sessions : hist[s].ok >= 1

\* C10: the user entries of the transcript are exactly the utterances
\* submitted to the session's current conversation id, in order, also after a
\* failed turn and after a reset whose create-conversation call fails.
C10_TranscriptMatchesConversation ==
  \A s \in Sessions :
    pc[s] = "idle" =>
      UserContents(Msgs(s)) = IF Cid(s) = NoConv THEN << >> ELSE sent[Cid(s)]

====
